---------------------------- MODULE Spec2Model ----------------------------
(***************************************************************************)
(* Model of the filtering / fallback proxy in src/main.py (GET /contacts,  *)
(* POST /post_screen_activity, POST /post_screen_activity_by_name) and     *)
(* src/checkpoint.py (GET /jobs).                                          *)
(*                                                                         *)
(* Python strings are sequences of one-character strings.  A value that    *)
(* may be missing is a record [k, s]: k = "absent" (key not in the dict),  *)
(* k = "null" (None / JSON null) or k = "str" (the string s).              *)
(***************************************************************************)
EXTENDS Naturals, Sequences, FiniteSets, TLC

VARIABLES
    localStore,   \* local_contacts_df, loaded once at import (main.py:15-19)
    pc,           \* position of the request being handled
    req,          \* the inbound request: route and parameters / body
    raw,          \* what the upstream GET produced (fetch_crelate_data)
    surv,         \* the upstream records for which matches_filters was True
    filtered,     \* result of fetch_filtered_contacts, or the marker of a raise
    contactId,    \* contact_id of the activity handlers
    calls,        \* the external calls made by the request, in order
    resp          \* the response returned to the caller

vars == <<localStore, pc, req, raw, surv, filtered, contactId, calls, resp>>

(***************************************************************************)
(* Bounds of the model.                                                    *)
(***************************************************************************)
MaxRecords == 2     \* length of the upstream Data list
MaxNameLen == 3     \* length of the exhaustively enumerated names (NameSpec)

(***************************************************************************)
(* Strings.                                                                *)
(***************************************************************************)
Absent == [k |-> "absent", s |-> <<>>]
Null == [k |-> "null", s |-> <<>>]
Str(s) == [k |-> "str", s |-> s]

\* Python truthiness of an optional string: None and "" are falsy.
Truthy(v) == v.k = "str" /\ v.s # <<>>

\* d.get(key) or ""
OrEmpty(v) == IF Truthy(v) THEN v.s ELSE <<>>

UpperLetters == <<"A", "B", "C", "D", "E", "F", "G", "H", "I", "J", "K", "L", "M",
                  "N", "O", "P", "Q", "R", "S", "T", "U", "V", "W", "X", "Y", "Z">>
LowerLetters == <<"a", "b", "c", "d", "e", "f", "g", "h", "i", "j", "k", "l", "m",
                  "n", "o", "p", "q", "r", "s", "t", "u", "v", "w", "x", "y", "z">>

UpperSet == {UpperLetters[i] : i \in 1..Len(UpperLetters)}
LowerOf ==
    [c \in UpperSet |-> LowerLetters[CHOOSE i \in 1..Len(UpperLetters) : UpperLetters[i] = c]]

\* str.lower()
Lower(s) == [i \in 1..Len(s) |-> IF s[i] \in UpperSet THEN LowerOf[s[i]] ELSE s[i]]

\* str.replace(",", "")
RemoveCommas(s) == SelectSeq(s, LAMBDA c : c # ",")

RECURSIVE LStrip(_)
LStrip(s) == IF s # <<>> /\ s[1] = " " THEN LStrip(Tail(s)) ELSE s

RECURSIVE RStrip(_)
RStrip(s) ==
    IF s # <<>> /\ s[Len(s)] = " " THEN RStrip(SubSeq(s, 1, Len(s) - 1)) ELSE s

\* str.strip()
Strip(s) == RStrip(LStrip(s))

\* str.split(): the maximal runs of non-whitespace characters, in order.
Split(s) ==
    LET n == Len(s)
        positions == [i \in 1..n |-> i]
        starts == SelectSeq(positions,
                      LAMBDA i : s[i] # " " /\ (i = 1 \/ s[i - 1] = " "))
        ends == SelectSeq(positions,
                      LAMBDA i : s[i] # " " /\ (i = n \/ s[i + 1] = " "))
    IN  [w \in 1..Len(starts) |-> SubSeq(s, starts[w], ends[w])]

\* " ".join(parts)
RECURSIVE Join(_)
Join(parts) ==
    IF parts = <<>> THEN <<>>
    ELSE IF Len(parts) = 1 THEN parts[1]
    ELSE parts[1] \o <<" ">> \o Join(Tail(parts))

\* reversed(parts)
Reversed(parts) == [i \in 1..Len(parts) |-> parts[Len(parts) + 1 - i]]

\* Python's  a in b  for strings.
Contains(a, b) ==
    \E i \in 0..(Len(b) - Len(a)) : \A j \in 1..Len(a) : b[i + j] = a[j]

\* normalize_name: " ".join(name.lower().replace(",", "").split())
normalize_name(name) == Join(Split(RemoveCommas(Lower(name))))

\* A faulty variant of the name test: the reversed token order is not tried.
NameMatchesNoReverse(target, name) == Contains(target, normalize_name(OrEmpty(name)))

\* The full_name test of matches_filters (main.py:141-144), True when the record
\* passes it.  target is normalize_name(full_name); name is contact.get("Name").
NameMatches(target, name) ==
    LET contact_name == normalize_name(OrEmpty(name))
        reversed_contact == Join(Reversed(Split(contact_name)))
    IN  ~(~Contains(target, contact_name) /\ ~Contains(target, reversed_contact))


(***************************************************************************)
(* Upstream JSON.  A sub-object is [k, Title] or [k, Value] with k in      *)
(* {"absent", "null", "obj"}; a list field is [k, items] with k in         *)
(* {"absent", "null", "list"}; an entry of Owners, JobTypeIds or a tag     *)
(* sub-group is [k, Title, IsPrimary] with k in {"null", "obj"}.           *)
(***************************************************************************)
NullEntry == [k |-> "null", Title |-> Absent, IsPrimary |-> FALSE]
Entry(t, p) == [k |-> "obj", Title |-> t, IsPrimary |-> p]

\* d.get(key) or []  /  (d.get(key) or {}).values()
ItemsOrEmpty(field) == IF field.k \in {"list", "obj"} THEN field.items ELSE <<>>

\* (d.get(key) or {}).get("Title"): None when the sub-object is missing or null.
TitleOf(obj) == IF obj.k = "obj" THEN obj.Title ELSE Absent

\* d.get(key, "")
GetOrEmpty(v) == IF v.k = "absent" THEN Str(<<>>) ELSE v

\* (x.get("Title") or "").strip().lower() == wanted.strip().lower()
TitleEquals(title, wanted) == Lower(Strip(OrEmpty(title))) = Lower(Strip(wanted))

\* any(<title test> for o in entries if isinstance(o, dict))
AnyTitleEquals(entries, wanted) ==
    \E i \in 1..Len(entries) :
        entries[i].k = "obj" /\ TitleEquals(entries[i].Title, wanted)

\* next((o for o in owners if o.get("IsPrimary") and isinstance(o, dict)), None)
\* o.get is evaluated before the isinstance test, so a null entry met before a
\* primary one raises AttributeError; the generator stops at the first hit.
RECURSIVE FindPrimary(_)
FindPrimary(owners) ==
    IF owners = <<>> THEN [st |-> "none", e |-> NullEntry]
    ELSE IF Head(owners).k = "null" THEN [st |-> "raise", e |-> NullEntry]
    ELSE IF Head(owners).IsPrimary THEN [st |-> "found", e |-> Head(owners)]
    ELSE FindPrimary(Tail(owners))

\* The tag loop of matches_filters (main.py:171-180).
TagMatches(tags, wanted) ==
    \E g \in 1..Len(ItemsOrEmpty(tags)) :
        /\ ItemsOrEmpty(tags)[g].k = "list"
        /\ AnyTitleEquals(ItemsOrEmpty(tags)[g].items, wanted)

\* target = normalize_name(full_name) if full_name else None
Target(f) == IF Truthy(f.full_name) THEN normalize_name(f.full_name.s) ELSE <<>>

\* A faulty variant of matches_filters: the primary_owner test accepts any
\* owner of that title, flagged primary or not.
MatchesFiltersAnyOwnerAsPrimary(contact, f) ==
    LET target == Target(f) IN
    IF contact.k # "obj" THEN "F"
    ELSE IF target # <<>> /\ ~NameMatches(target, contact.Name) THEN "F"
    ELSE IF Truthy(f.created_by)
            /\ ~TitleEquals(TitleOf(contact.CreatedById), f.created_by.s) THEN "F"
    ELSE IF Truthy(f.owner)
            /\ ~AnyTitleEquals(ItemsOrEmpty(contact.Owners), f.owner.s) THEN "F"
    ELSE IF Truthy(f.primary_owner)
            /\ ~AnyTitleEquals(ItemsOrEmpty(contact.Owners), f.primary_owner.s) THEN "F"
    ELSE IF Truthy(f.tag) /\ ~TagMatches(contact.Tags, f.tag.s) THEN "F"
    ELSE "T"

\* fetch_filtered_contacts.matches_filters (main.py:136-184): "T" (True),
\* "F" (False) or "X" (an exception leaves the function).
MatchesFilters(contact, f) ==
    LET target == Target(f) IN
    IF contact.k # "obj" THEN "F"
    ELSE IF target # <<>> /\ ~NameMatches(target, contact.Name) THEN "F"
    ELSE IF Truthy(f.created_by)
            /\ ~TitleEquals(TitleOf(contact.CreatedById), f.created_by.s) THEN "F"
    ELSE IF Truthy(f.owner)
            /\ ~AnyTitleEquals(ItemsOrEmpty(contact.Owners), f.owner.s) THEN "F"
    ELSE LET primary == FindPrimary(ItemsOrEmpty(contact.Owners))
         IN  IF Truthy(f.primary_owner) /\ primary.st = "raise" THEN "X"
             ELSE IF Truthy(f.primary_owner)
                     /\ (\/ primary.st = "none"
                         \/ ~TitleEquals(primary.e.Title, f.primary_owner.s)) THEN "F"
             ELSE IF Truthy(f.tag) /\ ~TagMatches(contact.Tags, f.tag.s) THEN "F"
             ELSE "T"

\* safe_get(d, key) for one key (main.py:83-88): "" when d is None, else
\* d.get(key) or "".
safe_get(d, key) == IF d.k # "obj" THEN Str(<<>>) ELSE Str(OrEmpty(d[key]))

\* next((o.get("Title") for o in c.get("Owners", []) if o.get("IsPrimary")), "")
\* c.get("Owners", []) is None when the key is present with a null value, and
\* iterating None raises TypeError; no entry is tested with isinstance.
PrimaryOwnerTitle(owners) ==
    IF owners.k = "null" THEN [st |-> "raise", v |-> Null]
    ELSE LET p == FindPrimary(ItemsOrEmpty(owners))
         IN  IF p.st = "raise" THEN [st |-> "raise", v |-> Null]
             ELSE IF p.st = "none" THEN [st |-> "ok", v |-> Str(<<>>)]
             ELSE [st |-> "ok", v |-> IF p.e.Title.k = "str" THEN p.e.Title ELSE Null]

\* The "Tags" comprehension (main.py:198-203).
RECURSIVE TagTitles(_)
TagTitles(groups) ==
    IF groups = <<>> THEN <<>>
    ELSE LET g == Head(groups)
             kept == SelectSeq(IF g.k = "list" THEN g.items ELSE <<>>,
                               LAMBDA t : t.k = "obj" /\ Truthy(t.Title))
         IN  [i \in 1..Len(kept) |-> kept[i].Title.s] \o TagTitles(Tail(groups))

\* The dict built for one surviving contact (main.py:190-217); st = "raise"
\* when building it raises.
ProjectContact(c) ==
    LET primary == PrimaryOwnerTitle(c.Owners)
    IN
    IF primary.st = "raise"
    THEN [st |-> "raise", d |-> [Id |-> Null, FullName |-> Null]]
    ELSE [st |-> "ok",
          d |-> [Id |-> GetOrEmpty(c.Id),
                 FullName |-> GetOrEmpty(c.Name),
                 CreatedBy |-> safe_get(c.CreatedById, "Title"),
                 PrimaryOwner |-> primary.v,
                 Tags |-> TagTitles(ItemsOrEmpty(c.Tags)),
                 Location |-> IF Truthy(safe_get(c.Addresses_Home, "Value"))
                              THEN safe_get(c.Addresses_Home, "Value")
                              ELSE safe_get(c.Addresses_Business, "Value"),
                 Email_Work |-> safe_get(c.EmailAddresses_Work, "Value"),
                 Email_Personal |-> safe_get(c.EmailAddresses_Personal, "Value"),
                 Phone_Work |-> safe_get(c.PhoneNumbers_Work_Main, "Value"),
                 Phone_Mobile |-> safe_get(c.PhoneNumbers_Mobile, "Value"),
                 LastActivityDate |-> GetOrEmpty(c.LastActivityDate),
                 LastActivityRegarding |-> safe_get(c.LastActivityRegardingId, "Title"),
                 Description |-> GetOrEmpty(c.Description)]]

(***************************************************************************)
(* The local contact store: local_contacts_df.  cols is the set of columns *)
(* the sheet has; a row gives every column a cell, Str(s) or Null for an   *)
(* empty cell (NaN); cells of columns the sheet lacks are never read.      *)
(***************************************************************************)
NaNText == <<"n", "a", "n">>

\* df[col].astype(str).str.lower(): an empty cell reads "nan".
CellText(cell) == Lower(IF cell.k = "str" THEN cell.s ELSE NaNText)

\* re.compile(val) fails on an unbalanced parenthesis.
RegexInvalid(pat) == \E i \in 1..Len(pat) : pat[i] = "("

\* re.search(pat, text) for a pattern of literal characters and "." (any one
\* character).
RegexSearch(pat, text) ==
    \E i \in 0..Len(text) :
        /\ i + Len(pat) <= Len(text)
        /\ \A j \in 1..Len(pat) : pat[j] = "." \/ pat[j] = text[i + j]

\* local_contacts_df.empty
StoreEmpty(store) == store.cols = {} \/ store.rows = <<>>

\* A faulty variant of safe_filter: the frame is returned unfiltered.
safe_filter_drop_check(cols, rows, col, val, contains) ==
    [st |-> "ok", rows |-> rows]

\* filter_local_contacts.safe_filter (main.py:40-45) on the current df.
safe_filter(cols, rows, col, val, contains) ==
    IF col \notin cols THEN [st |-> "ok", rows |-> rows]
    ELSE IF contains
         THEN IF RegexInvalid(Lower(val)) THEN [st |-> "raise", rows |-> <<>>]
              ELSE [st |-> "ok",
                    rows |-> SelectSeq(rows,
                                 LAMBDA r : RegexSearch(Lower(val), CellText(r[col])))]
         ELSE [st |-> "ok",
               rows |-> SelectSeq(rows, LAMBDA r : CellText(r[col]) = Lower(val))]

\* One  if <param>: df = safe_filter(...)  step of filter_local_contacts.
FilterStep(cols, cur, param, col, contains) ==
    IF cur.st = "raise" \/ ~Truthy(param) THEN cur
    ELSE safe_filter(cols, cur.rows, col, param.s, contains)

\* df.fillna("").to_dict(orient="records") for one row: empty cells become "",
\* and the dict has the sheet's columns only.
FillNa(cols, row) ==
    [c \in DOMAIN row |-> IF c \notin cols THEN Absent
                          ELSE IF row[c].k = "null" THEN Str(<<>>) ELSE row[c]]

\* filter_local_contacts (main.py:33-58).
filter_local_contacts(store, f) ==
    IF StoreEmpty(store) THEN [st |-> "ok", rows |-> <<>>]
    ELSE LET d0 == [st |-> "ok", rows |-> store.rows]
             d1 == FilterStep(store.cols, d0, f.full_name, "FullName", FALSE)
             d2 == FilterStep(store.cols, d1, f.created_by, "CreatedBy", FALSE)
             d3 == FilterStep(store.cols, d2, f.owner, "Owner", FALSE)
             d4 == FilterStep(store.cols, d3, f.primary_owner, "PrimaryOwner", FALSE)
             d5 == FilterStep(store.cols, d4, f.tag, "Tags", TRUE)
         IN  IF d5.st = "raise" THEN d5
             ELSE [st |-> "ok", rows |-> [i \in 1..Len(d5.rows) |-> FillNa(store.cols, d5.rows[i])]]

\* lookup_local_contact (main.py:22-30): the Id of the first row whose
\* "Full Name" is the stripped query, case ignored; None when there is none;
\* KeyError when the sheet has no such column.  .str.lower() leaves an empty
\* cell NaN, which equals nothing.
lookup_local_contact(store, full_name) ==
    IF StoreEmpty(store) THEN [st |-> "ok", id |-> Null]
    ELSE IF "FullName" \notin store.cols THEN [st |-> "raise", id |-> Null]
    ELSE LET match == SelectSeq(store.rows,
                          LAMBDA r : r.FullName.k = "str"
                                     /\ Lower(r.FullName.s) = Lower(Strip(full_name)))
         IN  IF match = <<>> THEN [st |-> "ok", id |-> Null]
             ELSE IF "Id" \notin store.cols THEN [st |-> "raise", id |-> Null]
             ELSE [st |-> "ok", id |-> match[1].Id]

(***************************************************************************)
(* GET /jobs (src/checkpoint.py).                                          *)
(***************************************************************************)
\* x.get("Title", "").lower(): "" for a missing key; a null Title has no
\* .lower() and raises AttributeError.
JobTitleRaises(entry) == entry.Title.k = "null"
JobTitleLower(entry) == Lower(IF entry.Title.k = "str" THEN entry.Title.s ELSE <<>>)

\* any(e and e.get("Title", "").lower() == wanted.lower() for e in entries):
\* entries are tested in order and the scan stops at the first hit.
RECURSIVE JobAnyTitle(_, _)
JobAnyTitle(entries, wanted) ==
    IF entries = <<>> THEN "F"
    ELSE IF Head(entries).k = "null" THEN JobAnyTitle(Tail(entries), wanted)
    ELSE IF JobTitleRaises(Head(entries)) THEN "X"
    ELSE IF JobTitleLower(Head(entries)) = Lower(wanted) THEN "T"
    ELSE JobAnyTitle(Tail(entries), wanted)

\* next((o for o in owners if o and o.get("IsPrimary")), None)
RECURSIVE JobFindPrimary(_)
JobFindPrimary(owners) ==
    IF owners = <<>> THEN [st |-> "none", e |-> NullEntry]
    ELSE IF Head(owners).k = "obj" /\ Head(owners).IsPrimary
         THEN [st |-> "found", e |-> Head(owners)]
    ELSE JobFindPrimary(Tail(owners))

\* The created_by test of get_jobs.matches_filters (checkpoint.py:49-52).
JobCreatedBy(job, wanted) ==
    IF job.CreatedById.k # "obj" THEN IF <<>> = Lower(wanted) THEN "T" ELSE "F"
    ELSE IF JobTitleRaises(job.CreatedById) THEN "X"
    ELSE IF JobTitleLower(job.CreatedById) = Lower(wanted) THEN "T" ELSE "F"

\* The primary_owner test of get_jobs.matches_filters (checkpoint.py:64-68).
JobPrimaryOwner(job, wanted) ==
    LET primary == JobFindPrimary(ItemsOrEmpty(job.Owners))
    IN  IF primary.st = "none" THEN "F"
        ELSE IF JobTitleRaises(primary.e) THEN "X"
        ELSE IF JobTitleLower(primary.e) = Lower(wanted) THEN "T" ELSE "F"

\* One  if <param>: ... return False  block: the verdict so far stands unless
\* it is still "T" and the parameter was given.
JobStep(sofar, param, verdict) ==
    IF sofar # "T" \/ ~Truthy(param) THEN sofar ELSE verdict

\* get_jobs.matches_filters (checkpoint.py:47-72): "T", "F", or "X" when the
\* function raises.  A job that is no dict raises at its first job.get, which
\* is reached only when a predicate is supplied.
JobMatchesFilters(job, f) ==
    IF job.k # "obj"
    THEN IF Truthy(f.created_by) \/ Truthy(f.job_type) \/ Truthy(f.owner)
            \/ Truthy(f.primary_owner) THEN "X" ELSE "T"
    ELSE LET v1 == JobStep("T", f.created_by, JobCreatedBy(job, f.created_by.s))
             v2 == JobStep(v1, f.job_type,
                           JobAnyTitle(ItemsOrEmpty(job.JobTypeIds), f.job_type.s))
             v3 == JobStep(v2, f.owner,
                           JobAnyTitle(ItemsOrEmpty(job.Owners), f.owner.s))
         IN  JobStep(v3, f.primary_owner, JobPrimaryOwner(job, f.primary_owner.s))

\* d.get("Title"): None for a missing key or a null value.
GetOrNone(v) == IF v.k = "str" THEN v ELSE Null

\* The dict appended to display_jobs (checkpoint.py:77-86).
ProjectJob(job) ==
    IF job.k # "obj"
    THEN [st |-> "raise", d |-> [company |-> Null, job_title |-> Null,
                                 primary_owner |-> Null]]
    ELSE [st |-> "ok",
          d |-> [company |-> GetOrNone(TitleOf(job.AccountId)),
                 job_title |-> GetOrNone(TitleOf(job.JobTitleId)),
                 primary_owner |->
                     LET primary == JobFindPrimary(ItemsOrEmpty(job.Owners))
                     IN  IF primary.st = "found" THEN GetOrNone(primary.e.Title)
                         ELSE Null]]

\* filtered_jobs = [job for job in jobs if matches_filters(job)]
RECURSIVE JobFilterLoop(_, _, _)
JobFilterLoop(jobs, f, kept) ==
    IF jobs = <<>> THEN [st |-> "ok", surv |-> kept]
    ELSE LET m == JobMatchesFilters(Head(jobs), f)
         IN  IF m = "X" THEN [st |-> "raise", surv |-> kept]
             ELSE IF m = "T" THEN JobFilterLoop(Tail(jobs), f, Append(kept, Head(jobs)))
             ELSE JobFilterLoop(Tail(jobs), f, kept)

\* The display_jobs loop (checkpoint.py:76-86).
JobProjectAll(kept) ==
    IF \E i \in 1..Len(kept) : ProjectJob(kept[i]).st = "raise"
    THEN [st |-> "raise", recs |-> <<>>]
    ELSE [st |-> "ok", recs |-> [i \in 1..Len(kept) |-> ProjectJob(kept[i]).d]]

(***************************************************************************)
(* fetch_filtered_contacts (main.py:95-220).                               *)
(***************************************************************************)
\* parts = full_name.strip().split(); parts[0] raises IndexError when the
\* name is all whitespace.  This runs before the upstream call.
SplitRaises(f) == Truthy(f.full_name) /\ Split(Strip(f.full_name.s)) = <<>>

\* The results loop (main.py:186-218): the first exception ends it.  at tells
\* where it was raised: in matches_filters ("filter") or while the display
\* dict was built ("project").
RECURSIVE FilterLoop(_, _, _, _)
FilterLoop(contacts, f, kept, recs) ==
    IF contacts = <<>> THEN [st |-> "ok", at |-> "", surv |-> kept, recs |-> recs]
    ELSE LET m == MatchesFilters(Head(contacts), f)
             shown == ProjectContact(Head(contacts))
         IN  IF m = "X" THEN [st |-> "raise", at |-> "filter", surv |-> kept, recs |-> <<>>]
             ELSE IF m = "F" THEN FilterLoop(Tail(contacts), f, kept, recs)
             ELSE IF shown.st = "raise"
                  THEN [st |-> "raise", at |-> "project", surv |-> kept, recs |-> <<>>]
             ELSE FilterLoop(Tail(contacts), f, Append(kept, Head(contacts)),
                             Append(recs, shown.d))


\* The part of fetch_filtered_contacts after the upstream call (main.py:126-220).
\* reply is what fetch_crelate_data met: a transport error leaves it as an
\* exception; a non-200 status and an unparsable body come back as an error
\* dict, which has no "Data"; a JSON body that is no dict (or is empty) gives [].
fetch_filtered_contacts(reply, f) ==
    IF reply.kind = "transport_error"
    THEN [st |-> "raise", at |-> "fetch", surv |-> <<>>, recs |-> <<>>]
    ELSE IF reply.kind # "json_dict"
    THEN [st |-> "ok", at |-> "", surv |-> <<>>, recs |-> <<>>]
    ELSE FilterLoop(ItemsOrEmpty(reply.data), f, <<>>, <<>>)

(***************************************************************************)
(* Responses and the three handlers of src/main.py, each as the function   *)
(* of what the upstream call produced.                                     *)
(***************************************************************************)
NoResp == [status |-> 0, kind |-> "none", error |-> "", records |-> <<>>]
RecordsResp(recs) == [status |-> 200, kind |-> "records", error |-> "", records |-> recs]
\* A dict with an "error" key returned with the default status.
ErrorResp(msg) == [status |-> 200, kind |-> "error", error |-> msg, records |-> <<>>]
\* JSONResponse(status_code=..., content={"error": ...})
StatusResp(code, msg) ==
    [status |-> code, kind |-> "error", error |-> msg, records |-> <<>>]
SuccessResp == [status |-> 200, kind |-> "success", error |-> "", records |-> <<>>]

NoFiltered == [st |-> "none", at |-> "", recs |-> <<>>]

\* get_contacts (main.py:223-247) from the upstream reply on: the surviving
\* records, the result of fetch_filtered_contacts, the calls made after the
\* upstream GET, and the response.
get_contacts(reply, store, f) ==
    LET r == fetch_filtered_contacts(reply, f)
        fb == filter_local_contacts(store, f)
    IN  IF r.st = "raise"
        THEN [surv |-> r.surv, filtered |-> [st |-> "raise", at |-> r.at, recs |-> <<>>],
              calls |-> <<>>, resp |-> ErrorResp("Exception caught in get_contacts")]
        ELSE IF r.recs # <<>>
        THEN [surv |-> r.surv, filtered |-> [st |-> "ok", at |-> "", recs |-> r.recs],
              calls |-> <<>>, resp |-> RecordsResp(r.recs)]
        ELSE [surv |-> r.surv, filtered |-> [st |-> "ok", at |-> "", recs |-> r.recs],
              calls |-> <<"local_filter">>,
              resp |-> IF fb.st = "raise"
                       THEN ErrorResp("Exception caught in get_contacts")
                       ELSE RecordsResp(fb.rows)]

\* get_jobs (checkpoint.py:23-91) from the upstream reply on.  Its
\* fetch_crelate_data (checkpoint.py:10-21) parses the body outside any try.
get_jobs(reply, f) ==
    LET kept == JobFilterLoop(ItemsOrEmpty(reply.data), f, <<>>)
        shown == JobProjectAll(kept.surv)
        Raised(at, partial) ==
            [surv |-> partial, filtered |-> [st |-> "raise", at |-> at, recs |-> <<>>],
             resp |-> ErrorResp("Exception caught in get_jobs")]
    IN  IF reply.kind \in {"transport_error", "unparsable"} THEN Raised("fetch", <<>>)
        ELSE IF reply.kind = "json_nondict"
        THEN [surv |-> <<>>, filtered |-> NoFiltered,
              resp |-> ErrorResp("Unexpected API response format")]
        ELSE IF reply.kind = "non200" \/ reply.data.k # "list"
        THEN [surv |-> <<>>, filtered |-> NoFiltered,
              resp |-> ErrorResp("Missing 'Data' key in API response")]
        ELSE IF kept.st = "raise" THEN Raised("filter", kept.surv)
        ELSE IF shown.st = "raise" THEN Raised("project", kept.surv)
        ELSE [surv |-> kept.surv, filtered |-> [st |-> "ok", at |-> "", recs |-> shown.recs],
              resp |-> RecordsResp(shown.recs)]

\* The FilterSpec of a call that passes full_name alone.
NameOnly(full_name) ==
    [full_name |-> full_name, tag |-> Null, created_by |-> Null, owner |-> Null,
     primary_owner |-> Null, job_type |-> Null]

\* post_screen_activity_by_name (main.py:305-314) from the upstream reply to
\* the decision: st = "raise" (an exception reaches the handler's except),
\* "not_found" (the 404) or "post" (post_screen_activity is called with id).
resolve_contact_id(reply, store, full_name) ==
    LET r == fetch_filtered_contacts(reply, NameOnly(full_name))
        lk == lookup_local_contact(store, full_name.s)
    IN  IF r.st = "raise"
        THEN [st |-> "raise", id |-> Null, calls |-> <<>>,
              filtered |-> [st |-> "raise", at |-> r.at, recs |-> <<>>], surv |-> r.surv]
        ELSE IF r.recs # <<>>
        THEN [st |-> IF Truthy(r.recs[1].Id) THEN "post" ELSE "not_found",
              id |-> r.recs[1].Id, calls |-> <<>>,
              filtered |-> [st |-> "ok", at |-> "", recs |-> r.recs], surv |-> r.surv]
        ELSE [st |-> IF lk.st = "raise" THEN "raise"
                     ELSE IF Truthy(lk.id) THEN "post" ELSE "not_found",
              id |-> lk.id, calls |-> <<"local_lookup">>,
              filtered |-> [st |-> "ok", at |-> "", recs |-> r.recs], surv |-> r.surv]

\* A faulty variant of the required-field test: EntityId is not tested.
validate_activity_notes_only(entity_id, notes) == Truthy(notes)

\* if not contact_id or not notes  (main.py:255), negated.
validate_activity(entity_id, notes) == Truthy(entity_id) /\ Truthy(notes)

\* The outcome of the activities POST (main.py:278-292): a transport error
\* and an unparsable body are caught by the handler's own except.
post_result(outcome) ==
    IF outcome = "ok" THEN SuccessResp
    ELSE IF outcome = "non200" THEN ErrorResp("Failed to post activity")
    ELSE ErrorResp("Exception occurred while posting activity")

(***************************************************************************)
(* The inputs the model draws from.                                        *)
(***************************************************************************)
sJaneDoe == <<"J", "a", "n", "e", " ", "D", "o", "e">>
sDoeJane == <<"D", "o", "e", ",", " ", "J", "a", "n", "e">>
sJaneDoeMixed == <<"j", "a", "n", "e", " ", "D", "O", "E">>
sDoeJaneLower == <<"d", "o", "e", ",", " ", "j", "a", "n", "e">>
sBlank == <<" ">>
sZed == <<"Z", "e", "d">>
sAnnLee == <<"A", "n", "n", " ", "L", "e", "e">>
sAnn == <<"A", "n", "n">>
sAnnUpper == <<"A", "N", "N">>
sAnnPadded == <<" ", "a", "n", "n">>
sBob == <<"B", "o", "b">>
sBobLower == <<"b", "o", "b">>
sBobPadded == <<" ", "B", "O", "B", " ">>
sVip == <<"v", "i", "p">>
sVipUpper == <<"V", "I", "P">>
sVipDot == <<"V", ".", "P">>
sVips == <<"v", "i", "p", "s">>
sHot == <<"h", "o", "t">>
sParen == <<"(">>
sContract == <<"c", "o", "n", "t", "r", "a", "c", "t">>
sContractCap == <<"C", "o", "n", "t", "r", "a", "c", "t">>
sC1 == <<"c", "1">>
sC2 == <<"c", "2">>
sC3 == <<"c", "3">>
sL1 == <<"L", "1">>
sL2 == <<"L", "2">>
sL3 == <<"L", "3">>
sNyc == <<"N", "Y", "C">>
sLa == <<"L", "A">>
sMail == <<"j", "@", "x">>
sAcme == <<"A", "c", "m", "e">>
sDev == <<"D", "e", "v">>
sHi == <<"h", "i">>
sAbc == <<"a", "b", "c">>

NoObj(kind) == [k |-> kind, Title |-> Absent, Value |-> Absent]
TitleObj(title) == [k |-> "obj", Title |-> title, Value |-> Absent]
ValueObj(value) == [k |-> "obj", Title |-> Absent, Value |-> value]
NoList(kind) == [k |-> kind, items |-> <<>>]
List(items) == [k |-> "list", items |-> items]
Dict(groups) == [k |-> "obj", items |-> groups]

\* A contact with every field present.
ContactAll ==
    [k |-> "obj", Id |-> Str(sC1), Name |-> Str(sJaneDoe),
     CreatedById |-> TitleObj(Str(sAnn)),
     Owners |-> List(<<Entry(Str(sBob), TRUE)>>),
     Tags |-> Dict(<<List(<<Entry(Str(sVipUpper), FALSE)>>)>>),
     Addresses_Home |-> ValueObj(Str(sNyc)),
     Addresses_Business |-> ValueObj(Str(sLa)),
     EmailAddresses_Work |-> ValueObj(Str(sMail)),
     EmailAddresses_Personal |-> NoObj("null"),
     PhoneNumbers_Work_Main |-> NoObj("absent"),
     PhoneNumbers_Mobile |-> ValueObj(Null),
     LastActivityDate |-> Null,
     LastActivityRegardingId |-> TitleObj(Str(sHi)),
     Description |-> Absent]

\* Stored "Last, First", with padded and differently cased titles, a second
\* owner, a null tag sub-group and a null tag entry.
ContactReversed ==
    [ContactAll EXCEPT
        !.Id = Str(sC2), !.Name = Str(sDoeJane),
        !.CreatedById = TitleObj(Str(sAnnPadded)),
        !.Owners = List(<<Entry(Str(sAnn), FALSE), Entry(Str(sBobPadded), TRUE)>>),
        !.Tags = Dict(<<NoList("null"), List(<<NullEntry, Entry(Str(sVip), FALSE)>>)>>),
        !.Addresses_Home = NoObj("absent")]

\* No owner is flagged primary.
ContactNoPrimary ==
    [ContactAll EXCEPT !.Id = Str(sC3), !.Owners = List(<<Entry(Str(sBob), FALSE)>>),
                       !.Tags = NoList("null")]

\* Another person, with every sub-object missing or null.
ContactBare ==
    [ContactAll EXCEPT
        !.Id = Absent, !.Name = Str(sAnnLee), !.CreatedById = NoObj("null"),
        !.Owners = NoList("absent"),
        !.Tags = Dict(<<List(<<Entry(Str(sHot), FALSE), Entry(Null, FALSE)>>)>>),
        !.Addresses_Home = NoObj("null"), !.Addresses_Business = NoObj("absent"),
        !.EmailAddresses_Work = NoObj("null"),
        !.LastActivityRegardingId = NoObj("null")]

\* "Owners": null.
ContactNullOwners == [ContactAll EXCEPT !.Owners = NoList("null")]

\* A null entry in Owners before the primary owner.
ContactNullOwnerEntry ==
    [ContactAll EXCEPT !.Owners = List(<<NullEntry, Entry(Str(sBob), TRUE)>>)]

\* A null in the Data list itself.
ContactNull == [ContactAll EXCEPT !.k = "null"]

ContactPool ==
    {ContactAll, ContactReversed, ContactNoPrimary, ContactBare,
     ContactNullOwners, ContactNullOwnerEntry, ContactNull}

JobAll ==
    [k |-> "obj", Id |-> Str(sC1),
     CreatedById |-> TitleObj(Str(sAnn)),
     JobTypeIds |-> List(<<Entry(Str(sContractCap), FALSE)>>),
     Owners |-> List(<<Entry(Str(sBob), TRUE)>>),
     AccountId |-> TitleObj(Str(sAcme)),
     JobTitleId |-> TitleObj(Str(sDev))]

JobAlt ==
    [JobAll EXCEPT
        !.CreatedById = TitleObj(Str(sAnnUpper)),
        !.JobTypeIds = List(<<NullEntry, Entry(Str(sContract), FALSE)>>),
        !.Owners = List(<<NullEntry, Entry(Str(sAnn), FALSE), Entry(Str(sBobLower), TRUE)>>),
        !.AccountId = NoObj("null"), !.JobTitleId = NoObj("absent")]

JobNoPrimary == [JobAll EXCEPT !.Owners = List(<<Entry(Str(sBob), FALSE)>>)]

\* Entries whose Title is null.
JobNullTitles ==
    [JobAll EXCEPT
        !.CreatedById = TitleObj(Null),
        !.JobTypeIds = List(<<Entry(Null, FALSE)>>),
        !.Owners = List(<<Entry(Null, TRUE)>>)]

JobBare ==
    [JobAll EXCEPT
        !.CreatedById = NoObj("null"), !.JobTypeIds = NoList("null"),
        !.Owners = NoList("absent"), !.AccountId = NoObj("null"),
        !.JobTitleId = TitleObj(Absent)]

JobNull == [JobAll EXCEPT !.k = "null"]

JobPool == {JobAll, JobAlt, JobNoPrimary, JobNullTitles, JobBare, JobNull}

\* All sequences over pool of length at most n.
RECURSIVE SeqsUpTo(_, _)
SeqsUpTo(pool, n) ==
    IF n = 0 THEN {<<>>}
    ELSE SeqsUpTo(pool, n - 1)
         \cup {Append(q, x) : q \in {p \in SeqsUpTo(pool, n - 1) : Len(p) = n - 1},
                              x \in pool}

\* What one upstream GET can produce.
Replies(pool) ==
    {[kind |-> kd, data |-> NoList("absent")] :
        kd \in {"transport_error", "non200", "unparsable", "json_nondict", "json_dict"}}
    \cup {[kind |-> "json_dict", data |-> NoList("null")]}
    \cup {[kind |-> "json_dict", data |-> List(items)] : items \in SeqsUpTo(pool, MaxRecords)}

ContactReplies == Replies(ContactPool)
JobReplies == Replies(JobPool)

NoReply == [kind |-> "none", data |-> NoList("absent")]

PostOutcomes == {"ok", "non200", "transport_error", "unparsable"}

Row(id, name, creator, owner, primary, tags) ==
    [Id |-> id, FullName |-> name, CreatedBy |-> creator, Owner |-> owner,
     PrimaryOwner |-> primary, Tags |-> tags]

StoreRows ==
    <<Row(Str(sL1), Str(sJaneDoe), Str(sAnn), Str(sBob), Str(sBob), Str(sVips)),
      Row(Str(sL2), Str(sDoeJaneLower), Str(sAnnUpper), Str(sAnn), Null, Str(sVipUpper)),
      Row(Str(sL3), Null, Str(sBob), Str(sBobPadded), Str(sAnn), Null)>>

AllColumns == {"Id", "FullName", "CreatedBy", "Owner", "PrimaryOwner", "Tags"}

\* The sheet failed to load, loaded with every column, or loaded without
\* some of the columns.
Stores ==
    {[cols |-> {}, rows |-> <<>>],
     [cols |-> AllColumns, rows |-> StoreRows],
     [cols |-> {"Id", "Owner", "Tags"}, rows |-> StoreRows]}

OptValues(values) == {Null} \cup {Str(v) : v \in values}

ContactFilters ==
    [full_name : OptValues({sJaneDoeMixed, sDoeJane, sBlank}),
     tag : OptValues({sVip, sVipDot, sParen}),
     created_by : OptValues({sAnnUpper}),
     owner : OptValues({sBobLower}),
     primary_owner : OptValues({<<>>, sBob}),
     job_type : {Null}]

JobFilters ==
    [full_name : {Null},
     tag : OptValues({sVip}),
     created_by : OptValues({sAnnUpper}),
     owner : OptValues({sBobLower}),
     primary_owner : OptValues({<<>>, sBob}),
     job_type : OptValues({sContract})]

NoFilter == NameOnly(Null)

BodyValues(values) == {Absent} \cup {Str(v) : v \in values}

Body(entity_id, full_name, notes) ==
    [EntityId |-> entity_id, FullName |-> full_name, Notes |-> notes]

NoBody == Body(Absent, Absent, Absent)

Request(route, f, body) == [route |-> route, f |-> f, body |-> body]

(***************************************************************************)
(* The state machine: one request at a time (requests share no mutable     *)
(* state), suspended only at its upstream call.                            *)
(***************************************************************************)
Init ==
    /\ localStore \in Stores
    /\ pc = "idle"
    /\ req = Request("none", NoFilter, NoBody)
    /\ raw = NoReply
    /\ surv = <<>>
    /\ filtered = NoFiltered
    /\ contactId = Null
    /\ calls = <<>>
    /\ resp = NoResp

\* A request arrives; nothing of an earlier one is kept.
Begin(r) ==
    /\ pc = "idle"
    /\ req' = r
    /\ raw' = NoReply
    /\ surv' = <<>>
    /\ filtered' = NoFiltered
    /\ contactId' = Null
    /\ UNCHANGED localStore

\* GET /contacts up to the upstream call (main.py:234-236, 105-126).
ContactsRequest ==
    \E f \in ContactFilters :
        /\ Begin(Request("contacts", f, NoBody))
        /\ IF SplitRaises(f)
           THEN /\ pc' = "done"
                /\ calls' = <<>>
                /\ resp' = ErrorResp("Exception caught in get_contacts")
           ELSE /\ pc' = "await_get"
                /\ calls' = <<"GET contacts">>
                /\ resp' = NoResp

\* GET /contacts from the upstream reply to the response.
ContactsReply ==
    /\ pc = "await_get" /\ req.route = "contacts"
    /\ \E reply \in ContactReplies :
        LET out == get_contacts(reply, localStore, req.f)
        IN  /\ raw' = reply
            /\ surv' = out.surv
            /\ filtered' = out.filtered
            /\ calls' = calls \o out.calls
            /\ resp' = out.resp
    /\ pc' = "done"
    /\ UNCHANGED <<localStore, req, contactId>>

\* GET /jobs up to the upstream call (checkpoint.py:33-38).
JobsRequest ==
    \E f \in JobFilters :
        /\ Begin(Request("jobs", f, NoBody))
        /\ pc' = "await_get"
        /\ calls' = <<"GET jobs">>
        /\ resp' = NoResp

\* GET /jobs from the upstream reply to the response.
JobsReply ==
    /\ pc = "await_get" /\ req.route = "jobs"
    /\ \E reply \in JobReplies :
        LET out == get_jobs(reply, req.f)
        IN  /\ raw' = reply
            /\ surv' = out.surv
            /\ filtered' = out.filtered
            /\ resp' = out.resp
    /\ pc' = "done"
    /\ UNCHANGED <<localStore, req, contactId, calls>>

\* POST /post_screen_activity up to the upstream call (main.py:252-281).
ActivityRequest ==
    \E e \in BodyValues({<<>>, sAbc}), n \in BodyValues({<<>>, sHi}) :
        /\ Begin(Request("post_screen_activity", NoFilter, Body(e, Absent, n)))
        /\ IF validate_activity(e, n)
           THEN /\ pc' = "await_post"
                /\ calls' = <<"POST activities">>
                /\ resp' = NoResp
           ELSE /\ pc' = "done"
                /\ calls' = <<>>
                /\ resp' = StatusResp(400, "Missing required EntityId or Notes")

\* The activities POST returns (main.py:282-292); the by-name handler returns
\* what post_screen_activity returned (main.py:314).
ActivityReply ==
    /\ pc = "await_post"
    /\ \E outcome \in PostOutcomes : resp' = post_result(outcome)
    /\ pc' = "done"
    /\ UNCHANGED <<localStore, req, raw, surv, filtered, contactId, calls>>

\* POST /post_screen_activity_by_name up to the upstream GET (main.py:297-305).
ByNameRequest ==
    \E nm \in BodyValues({<<>>, sBlank, sJaneDoeMixed, sDoeJaneLower, sZed}),
       n \in BodyValues({<<>>, sHi}) :
        /\ Begin(Request("post_screen_activity_by_name", NameOnly(nm),
                         Body(Absent, nm, n)))
        /\ IF ~Truthy(nm) \/ ~Truthy(n)
           THEN /\ pc' = "done"
                /\ calls' = <<>>
                /\ resp' = StatusResp(400, "Missing required FullName or Notes")
           ELSE IF SplitRaises(NameOnly(nm))
           THEN /\ pc' = "done"
                /\ calls' = <<>>
                /\ resp' = ErrorResp("Exception occurred while posting by name")
           ELSE /\ pc' = "await_get"
                /\ calls' = <<"GET contacts">>
                /\ resp' = NoResp

\* POST /post_screen_activity_by_name from the reply of the upstream GET to
\* the 404, the exception, or the activities POST (main.py:305-314, 252-281).
ByNameReply ==
    /\ pc = "await_get" /\ req.route = "post_screen_activity_by_name"
    /\ \E reply \in ContactReplies :
        LET out == resolve_contact_id(reply, localStore, req.body.FullName)
        IN  /\ raw' = reply
            /\ surv' = out.surv
            /\ filtered' = out.filtered
            /\ contactId' = out.id
            /\ IF out.st = "raise"
               THEN /\ pc' = "done"
                    /\ calls' = calls \o out.calls
                    /\ resp' = ErrorResp("Exception occurred while posting by name")
               ELSE IF out.st = "not_found"
               THEN /\ pc' = "done"
                    /\ calls' = calls \o out.calls
                    /\ resp' = StatusResp(404, "No contact found with full name")
               ELSE IF validate_activity(out.id, req.body.Notes)
               THEN /\ pc' = "await_post"
                    /\ calls' = calls \o out.calls \o <<"POST activities">>
                    /\ resp' = NoResp
               ELSE /\ pc' = "done"
                    /\ calls' = calls \o out.calls
                    /\ resp' = StatusResp(400, "Missing required EntityId or Notes")
    /\ UNCHANGED <<localStore, req>>

\* The response is sent and the request's records are discarded; the next
\* request may arrive.
Finish ==
    /\ pc = "done"
    /\ pc' = "idle"
    /\ req' = Request("none", NoFilter, NoBody)
    /\ raw' = NoReply
    /\ surv' = <<>>
    /\ filtered' = NoFiltered
    /\ contactId' = Null
    /\ calls' = <<>>
    /\ resp' = NoResp
    /\ UNCHANGED localStore

Next ==
    \/ ContactsRequest
    \/ ContactsReply
    \/ JobsRequest
    \/ JobsReply
    \/ ActivityRequest
    \/ ActivityReply
    \/ ByNameRequest
    \/ ByNameReply
    \/ Finish

Spec == Init /\ [][Next]_vars

(***************************************************************************)
(* The name predicate alone: the query and the upstream Name are drawn     *)
(* from every string over a small alphabet and from the names below, and   *)
(* the client-side filter is applied to the one-record reply.              *)
(***************************************************************************)
NameAlphabet == {"a", "b", "B", " ", ",", "."}

ChosenNames ==
    {sJaneDoe, sDoeJane, sJaneDoeMixed, sDoeJaneLower, sAnnLee,
     <<"a", " ", "b">>, <<"b", " ", "a">>, <<"B", ",", " ", "a">>,
     <<"a", " ", "b", " ", "a">>, <<"b", ".", " ", "a">>, <<"a", ".", "b">>}

EnumeratedNames == SeqsUpTo(NameAlphabet, MaxNameLen)

NameInputs ==
    (ChosenNames \X (ChosenNames \cup EnumeratedNames))
    \cup (EnumeratedNames \X ChosenNames)

NameReply(name) ==
    [kind |-> "json_dict", data |-> List(<<[ContactAll EXCEPT !.Name = Str(name)]>>)]

InitName ==
    /\ localStore = [cols |-> {}, rows |-> <<>>]
    /\ pc = "idle"
    /\ \E in \in NameInputs :
        /\ req = Request("contacts", NameOnly(Str(in[1])), NoBody)
        /\ raw = NameReply(in[2])
    /\ surv = <<>>
    /\ filtered = NoFiltered
    /\ contactId = Null
    /\ calls = <<>>
    /\ resp = NoResp

\* The client-side filter of fetch_filtered_contacts (main.py:133-220) on the
\* reply: target, matches_filters and the results loop.
NameCheck ==
    /\ pc = "idle"
    /\ LET r == FilterLoop(ItemsOrEmpty(raw.data), req.f, <<>>, <<>>)
       IN  /\ surv' = r.surv
           /\ filtered' = [st |-> r.st, at |-> r.at, recs |-> r.recs]
    /\ pc' = "done"
    /\ UNCHANGED <<localStore, req, raw, contactId, calls, resp>>

NameNext == NameCheck

NameSpec == InitName /\ [][NameNext]_vars

(***************************************************************************)
(* What the properties below speak of.                                     *)
(***************************************************************************)
Done == pc = "done"

\* The records of the upstream reply (none unless it was a dict with a Data list).
UpstreamData == IF raw.kind = "json_dict" THEN ItemsOrEmpty(raw.data) ELSE <<>>

AllAreObjects(records) == \A i \in 1..Len(records) : records[i].k = "obj"

LocalConsulted == \E i \in 1..Len(calls) : calls[i] = "local_filter"
WriteAttempted == \E i \in 1..Len(calls) : calls[i] = "POST activities"

\* One character with its case folded.
LowerChar(c) == IF c \in UpperSet THEN LowerOf[c] ELSE c

\* A name in normal form: case folded, the characters of dropped removed, runs
\* of blanks collapsed to one blank, no blank at either end.
Canon(s, dropped) ==
    LET kept == SelectSeq(s, LAMBDA c : c \notin dropped)
        n == Len(kept)
        \* a blank stays if it is the first of its run and the run is inside the name
        Stays(i) ==
            \/ kept[i] # " "
            \/ /\ i > 1 /\ kept[i - 1] # " "
               /\ \E j \in (i + 1)..n : kept[j] # " "
        chosen == SelectSeq([i \in 1..n |-> i], Stays)
    IN  [i \in 1..Len(chosen) |-> LowerChar(kept[chosen[i]])]

\* The words of a normal-form name in the opposite order.
RECURSIVE RevWords(_)
RevWords(s) ==
    IF \A i \in 1..Len(s) : s[i] # " " THEN s
    ELSE LET i == CHOOSE k \in 1..Len(s) : s[k] = " " /\ \A j \in 1..(k - 1) : s[j] # " "
         IN  RevWords(SubSeq(s, i + 1, Len(s))) \o <<" ">> \o SubSeq(s, 1, i - 1)

IsInfix(a, b) ==
    \E i \in 1..(Len(b) + 1) :
        \A j \in 1..Len(a) : i + j - 1 <= Len(b) /\ b[i + j - 1] = a[j]

\* The normalized query is a substring of the normalized name in either word order.
NameAgrees(query, name, dropped) ==
    LET q == Canon(query, dropped)
        n == Canon(name, dropped)
    IN  IsInfix(q, n) \/ IsInfix(q, RevWords(n))

Commas == {","}
Punctuation == {",", ".", ";", ":", "'", "-"}

\* A supplied predicate is one whose value the handlers treat as given: a
\* non-empty string.
ContactPredicates == {"full_name", "created_by", "owner", "primary_owner", "tag"}
JobPredicates == {"created_by", "job_type", "owner", "primary_owner"}
Supplied(f, names) == {p \in names : Truthy(f[p])}

SameTitle(title, wanted) ==
    \/ title.k = "str" /\ Lower(Strip(title.s)) = Lower(Strip(wanted))
    \/ title.k # "str" /\ Strip(wanted) = <<>>

HasPrimary(record) ==
    \E i \in 1..Len(ItemsOrEmpty(record.Owners)) :
        ItemsOrEmpty(record.Owners)[i].k = "obj" /\ ItemsOrEmpty(record.Owners)[i].IsPrimary

\* The owner entry flagged primary: the first one, if several are.
IsThePrimary(owners, i) ==
    /\ owners[i].k = "obj" /\ owners[i].IsPrimary
    /\ \A j \in 1..(i - 1) : ~(owners[j].k = "obj" /\ owners[j].IsPrimary)

\* Predicate p of FilterSpec f matches contact c.
ContactPredicateMatches(p, c, f) ==
    LET owners == ItemsOrEmpty(c.Owners)
        groups == ItemsOrEmpty(c.Tags)
    IN  CASE p = "full_name" -> NameAgrees(f.full_name.s, OrEmpty(c.Name), Commas)
          [] p = "created_by" -> SameTitle(TitleOf(c.CreatedById), f.created_by.s)
          [] p = "owner" ->
                \E i \in 1..Len(owners) :
                    owners[i].k = "obj" /\ SameTitle(owners[i].Title, f.owner.s)
          [] p = "primary_owner" ->
                \E i \in 1..Len(owners) :
                    IsThePrimary(owners, i) /\ SameTitle(owners[i].Title, f.primary_owner.s)
          [] p = "tag" ->
                \E g \in 1..Len(groups) :
                    /\ groups[g].k = "list"
                    /\ \E i \in 1..Len(groups[g].items) :
                          /\ groups[g].items[i].k = "obj"
                          /\ SameTitle(groups[g].items[i].Title, f.tag.s)

ContactPasses(c, f) ==
    c.k = "obj" /\ \A p \in Supplied(f, ContactPredicates) : ContactPredicateMatches(p, c, f)

JobSameTitle(entry, wanted) ==
    /\ entry.k = "obj"
    /\ entry.Title.k # "null"
    /\ Lower(IF entry.Title.k = "str" THEN entry.Title.s ELSE <<>>) = Lower(wanted)

\* Predicate p of FilterSpec f matches job j.
JobPredicateMatches(p, j, f) ==
    LET owners == ItemsOrEmpty(j.Owners)
        types == ItemsOrEmpty(j.JobTypeIds)
    IN  CASE p = "created_by" ->
                JobSameTitle([k |-> j.CreatedById.k, Title |-> TitleOf(j.CreatedById)],
                             f.created_by.s)
          [] p = "job_type" ->
                \E i \in 1..Len(types) : JobSameTitle(types[i], f.job_type.s)
          [] p = "owner" ->
                \E i \in 1..Len(owners) : JobSameTitle(owners[i], f.owner.s)
          [] p = "primary_owner" ->
                \E i \in 1..Len(owners) :
                    IsThePrimary(owners, i) /\ JobSameTitle(owners[i], f.primary_owner.s)

JobPasses(j, f) ==
    j.k = "obj" /\ \A p \in Supplied(f, JobPredicates) : JobPredicateMatches(p, j, f)

(***************************************************************************)
(* Properties.                                                             *)
(***************************************************************************)

\* C1: on GET /contacts the local store is consulted exactly when no upstream
\* record passes the supplied predicates: if some record passes, the response
\* is the records response made of exactly the passing records and the store
\* is not queried; if none passes, the store is queried.
FallbackExactlyWhenNothingSurvives ==
    (Done /\ req.route = "contacts" /\ raw.kind = "json_dict") =>
        LET passing == SelectSeq(UpstreamData, LAMBDA c : ContactPasses(c, req.f))
        IN  /\ passing # <<>> =>
                /\ resp.kind = "records"
                /\ ~LocalConsulted
                /\ Len(resp.records) = Len(passing)
                /\ \A i \in 1..Len(passing) : resp.records[i].Id = GetOrEmpty(passing[i].Id)
            /\ passing = <<>> => LocalConsulted

\* C2: on GET /contacts a failed upstream fetch (non-success status, transport
\* error, unparsable body) is not propagated: the local store is consulted and
\* the response is a records response.
UpstreamFailureFallsBack ==
    (Done /\ req.route = "contacts"
          /\ raw.kind \in {"non200", "transport_error", "unparsable"}) =>
        LocalConsulted /\ resp.kind = "records"

\* C3: with a primary_owner predicate supplied, on /contacts and on /jobs, no
\* record without an owner entry flagged primary is among the surviving
\* upstream records, and the upstream records returned are those survivors.
NoPrimaryNeverMatches ==
    (Done /\ req.route \in {"contacts", "jobs"} /\ Truthy(req.f.primary_owner)) =>
        /\ \A i \in 1..Len(surv) : HasPrimary(surv[i])
        /\ (resp.kind = "records" /\ ~LocalConsulted) =>
                resp.records = filtered.recs /\ Len(filtered.recs) = Len(surv)

\* C3 witness: a primary_owner query met a record that has an owner of that
\* title but none flagged primary, and returned another upstream record.
NoPrimaryRecordSeen ==
    /\ Done /\ req.route = "contacts" /\ Truthy(req.f.primary_owner)
    /\ resp.kind = "records" /\ ~LocalConsulted /\ surv # <<>>
    /\ \E i \in 1..Len(UpstreamData) :
        /\ UpstreamData[i].k = "obj"
        /\ ~HasPrimary(UpstreamData[i])
        /\ AnyTitleEquals(ItemsOrEmpty(UpstreamData[i].Owners), req.f.primary_owner.s)

\* C4 (as amended): the client-side name match is case-insensitive and
\* tolerant of word order: with names normalized by lowercasing, removing
\* commas and collapsing whitespace, the record matches exactly if the
\* normalized query is a substring of the normalized name in either word
\* order; "Jane Doe" matches "Doe, Jane" and "Doe, Jane" matches "Jane Doe".
NameMatchIsNormalizedContainment ==
    Done =>
        LET query == req.f.full_name.s
            name == UpstreamData[1].Name.s
        IN  /\ filtered.st = "ok"
            /\ (surv # <<>>) <=> NameAgrees(query, name, Commas)
            /\ (query = sJaneDoe /\ name = sDoeJane) => surv # <<>>
            /\ (query = sDoeJane /\ name = sJaneDoe) => surv # <<>>

\* C4 witness: the query "Jane Doe" matched the upstream name "Doe, Jane".
JaneDoeMatchedDoeJane ==
    /\ Done /\ req.f.full_name.s = sJaneDoe /\ UpstreamData[1].Name.s = sDoeJane
    /\ surv # <<>> /\ filtered.recs # <<>>

\* C4 as stated: with all punctuation stripped by the normalization, a record
\* matches if the normalized query is a substring of the normalized name in
\* either word order.
NameMatchStripsPunctuation ==
    (Done /\ NameAgrees(req.f.full_name.s, UpstreamData[1].Name.s, Punctuation)) =>
        surv # <<>>

\* C5: POST /post_screen_activity without EntityId or without Notes (absent or
\* empty) ends at once with a 400 and no upstream call.
MissingFieldsRejectedBeforeUpstream ==
    (req.route = "post_screen_activity"
        /\ (~Truthy(req.body.EntityId) \/ ~Truthy(req.body.Notes))) =>
        pc = "done" /\ resp.status = 400 /\ calls = <<>>

\* C5 witness: {EntityId: "abc", Notes: ""} was rejected.
EmptyNotesRejected ==
    /\ req.route = "post_screen_activity"
    /\ req.body.EntityId = Str(sAbc) /\ req.body.Notes = Str(<<>>)
    /\ Done /\ resp.status = 400

\* C6: on POST /post_screen_activity_by_name the activity write is attempted
\* only once an identifier is resolved, and a request for which no identifier
\* is resolved ends with the 404 and without a write.
ByNameWritesOnlyWithIdentifier ==
    (req.route = "post_screen_activity_by_name"
        /\ Truthy(req.body.FullName) /\ Truthy(req.body.Notes)) =>
        /\ WriteAttempted => Truthy(contactId)
        /\ (Done /\ ~Truthy(contactId)) => resp.status = 404 /\ ~WriteAttempted

\* C7: for every record list the upstream fetch returns, filtering yields a
\* surviving set, and it holds exactly the records that every supplied
\* predicate matches, in upstream order: one failing predicate excludes a
\* record, and a predicate that was not supplied excludes nothing.
SurvivorsMatchEverySuppliedPredicate ==
    (Done /\ raw.kind = "json_dict" /\ raw.data.k = "list"
          /\ AllAreObjects(UpstreamData)) =>
        /\ filtered.st = "ok"
        /\ req.route \in {"contacts", "post_screen_activity_by_name"} =>
                surv = SelectSeq(UpstreamData, LAMBDA c : ContactPasses(c, req.f))
        /\ req.route = "jobs" =>
                surv = SelectSeq(UpstreamData, LAMBDA j : JobPasses(j, req.f))

\* C8: evaluating the supplied predicates on upstream records never raises,
\* whatever sub-objects are absent or null.
PredicatesNeverRaise ==
    (Done /\ req.route \in {"contacts", "jobs"} /\ AllAreObjects(UpstreamData)) =>
        filtered.at # "filter"

\* C9: projecting a surviving record into its display record never fails,
\* whatever nested paths are missing or null.
ProjectionNeverFails ==
    (Done /\ req.route \in {"contacts", "jobs"} /\ AllAreObjects(UpstreamData)) =>
        filtered.at # "project"

\* The sheet column that stands for each predicate of the FilterSpec.
ColumnOf ==
    [full_name |-> "FullName", created_by |-> "CreatedBy", owner |-> "Owner",
     primary_owner |-> "PrimaryOwner", tag |-> "Tags"]

\* The text of a sheet cell as the store compares it: its characters in lower
\* case, and "nan" for an empty cell.
CellReads(cell) ==
    IF cell.k = "str" THEN [i \in 1..Len(cell.s) |-> LowerChar(cell.s[i])]
    ELSE <<"n", "a", "n">>

\* The pattern (literal characters, "." for any one character) occurs in text.
PatternOccurs(pat, text) ==
    \E start \in 1..(Len(text) + 1) :
        \A j \in 1..Len(pat) :
            /\ start + j - 1 <= Len(text)
            /\ pat[j] \in {".", text[start + j - 1]}

\* Predicate p with value v holds of sheet row r under the store's own rule.
LocalRuleHolds(p, r, v) ==
    LET wanted == [i \in 1..Len(v) |-> LowerChar(v[i])]
    IN  IF p = "tag" THEN PatternOccurs(wanted, CellReads(r[ColumnOf[p]]))
        ELSE CellReads(r[ColumnOf[p]]) = wanted

\* Predicate p with value v holds of sheet row r under the rule the upstream
\* path uses for p, the cell standing for the record's name or title.
UpstreamRuleHolds(p, r, v) ==
    IF p = "full_name"
    THEN r[ColumnOf[p]].k = "str" /\ NameAgrees(v, r[ColumnOf[p]].s, Commas)
    ELSE SameTitle(r[ColumnOf[p]], v)

\* The rows of the response are rows of the sheet, each satisfying Holds.
ReturnedRowsSatisfy(Holds(_)) ==
    \A i \in 1..Len(resp.records) :
        \E k \in 1..Len(localStore.rows) :
            /\ resp.records[i] = FillNa(localStore.cols, localStore.rows[k])
            /\ Holds(localStore.rows[k])

FellBackWithRows ==
    Done /\ req.route = "contacts" /\ LocalConsulted /\ resp.kind = "records"

\* C10 (as amended): when /contacts falls back to the Local Contact Store,
\* every row returned satisfies every supplied predicate whose column the
\* sheet has, under the store's own rule: for full_name, created_by, owner
\* and primary_owner the cell text (lowercased, an empty cell reading "nan")
\* equals the lowercased value, and for tag the lowercased value, read as a
\* regular expression, occurs in the cell text; a supplied predicate whose
\* column the sheet lacks is skipped.
LocalRowsMatchUnderLocalRule ==
    FellBackWithRows =>
        ReturnedRowsSatisfy(LAMBDA r :
            \A p \in Supplied(req.f, ContactPredicates) :
                ColumnOf[p] \in localStore.cols => LocalRuleHolds(p, r, req.f[p].s))

\* C10 witness: the fallback ran with two predicates or more, tag among them,
\* on a sheet with every column, and returned some rows but not all.
LocalFilterKeptSomeRows ==
    /\ FellBackWithRows
    /\ localStore.cols = AllColumns
    /\ Truthy(req.f.tag)
    /\ Cardinality(Supplied(req.f, ContactPredicates)) >= 2
    /\ resp.records # <<>>
    /\ Len(resp.records) < Len(localStore.rows)

\* C10 as stated: when /contacts falls back to the Local Contact Store, every
\* row returned satisfies every supplied predicate under the rule the upstream
\* path uses for it, and no supplied predicate is skipped.
LocalRowsMatchUnderUpstreamRule ==
    FellBackWithRows =>
        ReturnedRowsSatisfy(LAMBDA r :
            \A p \in Supplied(req.f, ContactPredicates) :
                ColumnOf[p] \in localStore.cols /\ UpstreamRuleHolds(p, r, req.f[p].s))

=============================================================================
